---- MODULE Spec2Model ----
(***************************************************************************)
(* A model of setup.py, the build script of modified-Levenshtein:          *)
(*                                                                         *)
(*   1  from distutils.core import setup                                   *)
(*   2  from Cython.Build import cythonize                                 *)
(*   3  # import numpy                                                     *)
(*   5  setup(                                                             *)
(*   6          ext_modules=cythonize("cLev.pyx")                          *)
(*   7          # include_dirs=[numpy.get_include()] # needed for np ...   *)
(*   8  )                                                                  *)
(*                                                                         *)
(* One run of the script is one behaviour.  The environment of the run     *)
(* (the command line, the state of cLev.pyx on disk, which of distutils,   *)
(* Cython, numpy and a C compiler are installed, whether the install       *)
(* directory can be written, which distutils the import resolves to) is    *)
(* chosen in Init and never changes.  An                                   *)
(* import of a module that is not installed raises and ends the run.       *)
(* The toolchain's two calls, cythonize and setup, are each modelled as a  *)
(* call step of the script followed by the toolchain's own return or raise *)
(* step, so that "in progress" is a state of the model.                    *)
(***************************************************************************)
EXTENDS Naturals, Sequences, FiniteSets

VARIABLES
    argv,           \* sys.argv[1:], the subcommand given to the script
    pyx,            \* the state of cLev.pyx on disk
    hasNumpy,       \* whether numpy is installed in the environment
    hasDistutils,   \* whether distutils.core can be imported
    hasCython,      \* whether Cython.Build can be imported
    hasCompiler,    \* whether a working C compiler is installed
    installDirOk,   \* whether the install directory can be created and written
    installFirst,   \* whether install checks its directory before it builds
                    \* (setuptools' distutils) or after (the standard library's)
    pc,             \* the statement the script is at
    imported,       \* the modules the script has imported
    cythonizeArgs,  \* the argument of every cythonize call made, in order
    cyState,        \* the cythonize call: idle, running, returned, raised
    ext_modules,    \* the value cythonize returned (<<>> before it returns)
    setupCalls,     \* the keyword arguments of every setup call made, in order
    setupState,     \* the setup call: idle, running, returned, raised
    artifacts,      \* the files the toolchain has written
    raised,         \* the exception an import or a toolchain call raised ("none" if none)
    exit,           \* the run's status: running, ok, error
    message         \* the diagnostic the run ended with ("none" if none)

env == <<argv, pyx, hasNumpy, hasDistutils, hasCython, hasCompiler, installDirOk,
         installFirst>>
vars == <<argv, pyx, hasNumpy, hasDistutils, hasCython, hasCompiler, installDirOk,
          installFirst, pc, imported, cythonizeArgs, cyState, ext_modules, setupCalls, setupState, artifacts, raised, exit, message>>

(***************************************************************************)
(* The environment.                                                        *)
(***************************************************************************)
\* The command lines a caller gives: none, a display option, the build
\* commands, a command that builds nothing, a misspelt command.
Commands == {"", "--help", "build_ext", "install", "clean", "bogus"}
BuildCommands == {"build_ext", "install"}
QuietCommands == {"--help", "clean"}

\* cLev.pyx is missing; present but rejected by Cython; present and
\* translated, but its C is rejected by the compiler; present and buildable.
PyxStates == {"absent", "syntax_error", "c_error", "good"}

(***************************************************************************)
(* The script's own text.                                                  *)
(***************************************************************************)
\* Line 6: the one source the script names, whatever the command line.
SourceFor_ByCommand(cmd) == IF cmd = "install" THEN "cLev.c" ELSE "cLev.pyx"

SourceFor(cmd) == "cLev.pyx"

\* Line 3 is a comment: the script imports nothing from numpy.
NumpyImport == {}

\* Line 7 is a comment: no include_dirs keyword is passed to setup.
IncludeDirs_Numpy == IF hasNumpy THEN <<"numpy/core/include">> ELSE <<>>

IncludeDirs == <<>>

\* Line 6: ext_modules is the value cythonize returned.
ExtModulesArg_Dropped(exts) == <<>>

ExtModulesArg(exts) == exts

\* The script blocks in each call until the toolchain returns or raises.
AfterCall_Async(step) == IF step = "cythonize" THEN "line5" ELSE "done"

AfterCall(step) == IF step = "cythonize" THEN "in_cythonize" ELSE "in_setup"

\* The script has no try/except: an exception raised by an import or by a
\* toolchain call ends the run with that exception as its diagnostic.
Uncaught_Swallow(step, e) == [pc |-> "done", exit |-> "ok", message |-> "none"]

Uncaught_Translate(step, e) == [pc |-> "done", exit |-> "error", message |-> "build failed"]

Uncaught_Retry(step, e) ==
    IF step = "cythonize"
    THEN [pc |-> "line6", exit |-> "running", message |-> "none"]
    ELSE [pc |-> "done", exit |-> "error", message |-> e]

Uncaught_Continue(step, e) ==
    IF step = "cythonize"
    THEN [pc |-> "line5", exit |-> "running", message |-> "none"]
    ELSE [pc |-> "done", exit |-> "error", message |-> e]

Uncaught(step, e) == [pc |-> "done", exit |-> "error", message |-> e]

(***************************************************************************)
(* The toolchain's answers, as the script sees them.                       *)
(***************************************************************************)
\* cythonize(src): no file matches the pattern, Cython rejects the file, or
\* the file is translated to C and a list with one extension is returned.
CythonizeError(src, p) ==
    IF src # "cLev.pyx" \/ p = "absent" THEN "ValueError: doesn't match any files"
    ELSE IF p = "syntax_error" THEN "CompileError: cLev.pyx"
    ELSE "none"

CythonizeValue(src, p) == <<"cLev">>

\* The import of a module: it raises when the module is not installed.
ImportError(module, installed) ==
    IF installed THEN "none" ELSE "ModuleNotFoundError: " \o module

\* The files cythonize has written when it raises: nothing when no file
\* matched; when Cython rejected the file, a C file that must not be used is
\* left behind or not, depending on the Cython release.
CythonizeLeaves(src, p) ==
    IF src = "cLev.pyx" /\ p = "syntax_error" THEN {{}, {"cLev.c"}} ELSE {{}}

\* setup(ext_modules=exts) under the command line cmd: the command line is
\* parsed; install checks that its directory can be written (inst), before
\* anything is built when first holds and after the build otherwise; a
\* build command compiles the extensions (cc: a C compiler works).
InstallRefusedEarly(cmd, inst, first) == cmd = "install" /\ first /\ ~inst

Compiles(cmd, exts, p, cc, inst, first) ==
    /\ cmd \in BuildCommands
    /\ ~InstallRefusedEarly(cmd, inst, first)
    /\ exts # <<>>
    /\ p = "good"
    /\ cc

SetupError(cmd, exts, p, cc, inst, first) ==
    IF cmd = "" THEN "SystemExit: no commands supplied"
    ELSE IF cmd \notin BuildCommands \cup QuietCommands THEN "SystemExit: invalid command"
    ELSE IF InstallRefusedEarly(cmd, inst, first)
         THEN "SystemExit: cannot write to the install directory"
    ELSE IF cmd \in BuildCommands /\ exts # <<>> /\ ~Compiles(cmd, exts, p, cc, inst, first)
         THEN "SystemExit: command 'gcc' failed"
    ELSE IF cmd = "install" /\ ~inst THEN "SystemExit: could not create install directory"
    ELSE "none"

\* The compiled files setup has written by the time it returns or raises.
SetupBuilds(cmd, exts, p, cc, inst, first) ==
    IF Compiles(cmd, exts, p, cc, inst, first) THEN {"cLev.so"} ELSE {}

(***************************************************************************)
(* The run.                                                                *)
(***************************************************************************)
Init ==
    /\ argv \in Commands
    /\ pyx \in PyxStates
    /\ hasNumpy \in BOOLEAN
    /\ hasDistutils \in BOOLEAN
    /\ hasCython \in BOOLEAN
    /\ hasCompiler \in BOOLEAN
    /\ installDirOk \in BOOLEAN
    /\ installFirst \in BOOLEAN
    /\ pc = "line1"
    /\ imported = {}
    /\ cythonizeArgs = <<>>
    /\ cyState = "idle"
    /\ ext_modules = <<>>
    /\ setupCalls = <<>>
    /\ setupState = "idle"
    /\ artifacts = {}
    /\ raised = "none"
    /\ exit = "running"
    /\ message = "none"

\* Line 1: from distutils.core import setup
ImportSetup ==
    /\ pc = "line1"
    /\ ImportError("distutils", hasDistutils) = "none"
    /\ imported' = imported \cup {"distutils.core"}
    /\ pc' = "line2"
    /\ UNCHANGED <<env, cythonizeArgs, cyState, ext_modules, setupCalls, setupState,
                   artifacts, raised, exit, message>>

\* Line 1, distutils not installed: the import raises and the run ends
ImportSetupRaises ==
    /\ pc = "line1"
    /\ ImportError("distutils", hasDistutils) # "none"
    /\ raised' = ImportError("distutils", hasDistutils)
    /\ LET u == Uncaught("import", raised') IN
         /\ pc' = u.pc
         /\ exit' = u.exit
         /\ message' = u.message
    /\ UNCHANGED <<env, imported, cythonizeArgs, cyState, ext_modules, setupCalls,
                   setupState, artifacts>>

\* Lines 2-3: from Cython.Build import cythonize; numpy's import is a comment
ImportCythonize ==
    /\ pc = "line2"
    /\ ImportError("Cython", hasCython) = "none"
    /\ imported' = imported \cup {"Cython.Build"} \cup NumpyImport
    /\ pc' = "line6"
    /\ UNCHANGED <<env, cythonizeArgs, cyState, ext_modules, setupCalls, setupState,
                   artifacts, raised, exit, message>>

\* Line 2, Cython not installed: the import raises and the run ends
ImportCythonizeRaises ==
    /\ pc = "line2"
    /\ ImportError("Cython", hasCython) # "none"
    /\ raised' = ImportError("Cython", hasCython)
    /\ LET u == Uncaught("import", raised') IN
         /\ pc' = u.pc
         /\ exit' = u.exit
         /\ message' = u.message
    /\ UNCHANGED <<env, imported, cythonizeArgs, cyState, ext_modules, setupCalls,
                   setupState, artifacts>>

\* Line 6: the script calls cythonize("cLev.pyx"), as the argument of the
\* setup call and so before setup reads the command line
CallCythonize ==
    /\ pc = "line6"
    /\ cythonizeArgs' = Append(cythonizeArgs, SourceFor(argv))
    /\ cyState' = "running"
    /\ pc' = AfterCall("cythonize")
    /\ UNCHANGED <<env, imported, ext_modules, setupCalls, setupState, artifacts,
                   raised, exit, message>>

\* cythonize returns the extension list, having written the C file
CythonizeReturns ==
    /\ cyState = "running"
    /\ pc = "in_cythonize"
    /\ CythonizeError(cythonizeArgs[Len(cythonizeArgs)], pyx) = "none"
    /\ cyState' = "returned"
    /\ ext_modules' = CythonizeValue(cythonizeArgs[Len(cythonizeArgs)], pyx)
    /\ artifacts' = artifacts \cup {"cLev.c"}
    /\ pc' = "line5"
    /\ UNCHANGED <<env, imported, cythonizeArgs, setupCalls, setupState, raised,
                   exit, message>>

\* cythonize raises; nothing in the script catches it
CythonizeRaises ==
    /\ cyState = "running"
    /\ pc = "in_cythonize"
    /\ CythonizeError(cythonizeArgs[Len(cythonizeArgs)], pyx) # "none"
    /\ cyState' = "raised"
    /\ raised' = CythonizeError(cythonizeArgs[Len(cythonizeArgs)], pyx)
    /\ \E left \in CythonizeLeaves(cythonizeArgs[Len(cythonizeArgs)], pyx) :
          artifacts' = artifacts \cup left
    /\ LET u == Uncaught("cythonize", raised') IN
         /\ pc' = u.pc
         /\ exit' = u.exit
         /\ message' = u.message
    /\ UNCHANGED <<env, imported, cythonizeArgs, ext_modules, setupCalls, setupState>>

\* Lines 5-8: the script calls setup(ext_modules=...)
CallSetup ==
    /\ pc = "line5"
    /\ setupCalls' = Append(setupCalls, [ext_modules |-> ExtModulesArg(ext_modules),
                                         include_dirs |-> IncludeDirs])
    /\ setupState' = "running"
    /\ pc' = AfterCall("setup")
    /\ UNCHANGED <<env, imported, cythonizeArgs, cyState, ext_modules, artifacts,
                   raised, exit, message>>

\* setup returns: the script has no statement after it and ends
SetupReturns ==
    /\ setupState = "running"
    /\ pc = "in_setup"
    /\ LET call == setupCalls[Len(setupCalls)] IN
         /\ SetupError(argv, call.ext_modules, pyx, hasCompiler, installDirOk, installFirst) = "none"
         /\ artifacts' = artifacts \cup SetupBuilds(argv, call.ext_modules, pyx, hasCompiler, installDirOk, installFirst)
    /\ setupState' = "returned"
    /\ pc' = "done"
    /\ exit' = "ok"
    /\ UNCHANGED <<env, imported, cythonizeArgs, cyState, ext_modules, setupCalls,
                   raised, message>>

\* setup raises, after writing what it had built; nothing in the script
\* catches it
SetupRaises ==
    /\ setupState = "running"
    /\ pc = "in_setup"
    /\ LET call == setupCalls[Len(setupCalls)] IN
         /\ SetupError(argv, call.ext_modules, pyx, hasCompiler, installDirOk, installFirst) # "none"
         /\ raised' = SetupError(argv, call.ext_modules, pyx, hasCompiler, installDirOk, installFirst)
         /\ artifacts' = artifacts \cup SetupBuilds(argv, call.ext_modules, pyx, hasCompiler, installDirOk, installFirst)
    /\ setupState' = "raised"
    /\ LET u == Uncaught("setup", raised') IN
         /\ pc' = u.pc
         /\ exit' = u.exit
         /\ message' = u.message
    /\ UNCHANGED <<env, imported, cythonizeArgs, cyState, ext_modules, setupCalls>>

ScriptStep ==
    \/ ImportSetup
    \/ ImportSetupRaises
    \/ ImportCythonize
    \/ ImportCythonizeRaises
    \/ CallCythonize
    \/ CallSetup
ToolchainStep == CythonizeReturns \/ CythonizeRaises \/ SetupReturns \/ SetupRaises

Next ==
    \/ ImportSetup
    \/ ImportSetupRaises
    \/ ImportCythonize
    \/ ImportCythonizeRaises
    \/ CallCythonize
    \/ CythonizeReturns
    \/ CythonizeRaises
    \/ CallSetup
    \/ SetupReturns
    \/ SetupRaises

Spec == Init /\ [][Next]_vars

\* The interpreter runs the next statement, and every toolchain call ends.
LiveSpec == Spec /\ WF_vars(ScriptStep) /\ WF_vars(ToolchainStep)

(***************************************************************************)
(* The claims.                                                             *)
(***************************************************************************)
CompiledArtifact == "cLev.so"

\* Both imports of lines 1-2 have succeeded.
ImportsDone == {"distutils.core", "Cython.Build"} \subseteq imported

\* The run ended in an import of line 1 or 2.
ImportFailed == pc = "done" /\ ~ImportsDone

\* C1 as stated: a finished run succeeded exactly when cythonize and then
\* setup both returned and failed exactly when one of the two raised, with
\* the toolchain's exception as its diagnostic.
C1_Original ==
    pc = "done" =>
        /\ (exit = "ok") <=> (cyState = "returned" /\ setupState = "returned")
        /\ (exit = "error") <=> (cyState = "raised" \/ setupState = "raised")
        /\ message = raised

\* C1 as amended: a finished run succeeded exactly when cythonize and then
\* setup both returned, and failed exactly when one of the two raised or an
\* import of line 1 or 2 raised; its diagnostic is the exception that was
\* raised (none on success), never one of the script's own.
C1_StatusIsToolchainStatus ==
    pc = "done" =>
        /\ exit \in {"ok", "error"}
        /\ (exit = "ok") <=> (cyState = "returned" /\ setupState = "returned")
        /\ (exit = "error") <=> (ImportFailed \/ cyState = "raised" \/ setupState = "raised")
        /\ message = raised
        /\ (exit = "ok") <=> (raised = "none")
        /\ ImportFailed => (cyState = "idle" /\ setupState = "idle")

C1_Witness ==
    /\ pc = "done"
    /\ exit = "error"
    /\ setupState = "raised"
    /\ message = "SystemExit: command 'gcc' failed"

\* C2 as stated: a finished run with cLev.pyx present has produced a compiled
\* artifact, and a run with cLev.pyx absent fails and produces no artifact.
C2_Original ==
    /\ (pc = "done" /\ pyx # "absent") => CompiledArtifact \in artifacts
    /\ (pc = "done" /\ pyx = "absent") => exit = "error"
    /\ pyx = "absent" => artifacts = {}

\* C2 as amended: a run with cLev.pyx present that the toolchain completes
\* successfully under a build command has produced a compiled artifact, a
\* compiled artifact exists only if cLev.pyx was present and cythonize
\* returned, and a run with cLev.pyx absent fails and produces no artifact.
C2_ArtifactIffBuilt ==
    /\ (pc = "done" /\ pyx # "absent" /\ exit = "ok" /\ argv \in BuildCommands)
          => CompiledArtifact \in artifacts
    /\ CompiledArtifact \in artifacts => (pyx # "absent" /\ cyState = "returned")
    /\ (pc = "done" /\ pyx = "absent") => exit = "error"
    /\ pyx = "absent" => artifacts = {}

C2_Witness ==
    /\ pc = "done"
    /\ pyx = "good"
    /\ argv = "build_ext"
    /\ exit = "ok"
    /\ CompiledArtifact \in artifacts

\* C3: cythonize is called at most once in a run and only on cLev.pyx, also
\* after it has failed; setup is called at most once as well.
C3_SingleCallOnNamedSource ==
    /\ Len(cythonizeArgs) <= 1
    /\ \A i \in 1..Len(cythonizeArgs) : cythonizeArgs[i] = "cLev.pyx"
    /\ Len(setupCalls) <= 1
    /\ cyState = "raised" => (pc = "done" /\ Len(cythonizeArgs) = 1)

C3_Witness ==
    /\ pc = "done"
    /\ cyState = "raised"
    /\ argv = "install"
    /\ cythonizeArgs = <<"cLev.pyx">>

\* C4: whether numpy is installed or not, every setup call is handed an empty
\* list of include directories and numpy is never imported.
C4_IncludeDirsInactive ==
    /\ "numpy" \notin imported
    /\ \A i \in 1..Len(setupCalls) : setupCalls[i].include_dirs = <<>>

C4_Witness ==
    /\ hasNumpy
    /\ pc = "done"
    /\ Len(setupCalls) = 1
    /\ setupCalls[1].include_dirs = <<>>

\* C5 as stated: a run enters failure only in a toolchain call's raise step,
\* with the toolchain's exception as its diagnostic; with cLev.pyx absent
\* that step is cythonize's own, called on cLev.pyx without a check by the
\* script; and no step is taken from a failed state.
C5_OriginalStep ==
    /\ exit' = "error" =>
          /\ exit = "running"
          /\ pc \in {"in_cythonize", "in_setup"}
          /\ pc' = "done"
          /\ raised = "none" /\ raised' # "none"
          /\ message' = raised'
          /\ pyx = "absent" => (pc = "in_cythonize" /\ cythonizeArgs = <<"cLev.pyx">>)
    /\ exit # "error"

C5_Original == [][C5_OriginalStep]_vars

\* C5 as amended: a run enters failure only in a toolchain call's raise step
\* or in an import of line 1 or 2 whose module is not installed, with the
\* exception raised as its diagnostic; with cLev.pyx absent and both imports
\* done that step is cythonize's own, called on cLev.pyx without a check by
\* the script; and no step is taken from a failed state.
C5_FailureStep ==
    /\ exit' = "error" =>
          /\ exit = "running"
          /\ pc \in {"line1", "line2", "in_cythonize", "in_setup"}
          /\ pc = "line1" => ~hasDistutils
          /\ pc = "line2" => ~hasCython
          /\ pc' = "done"
          /\ raised = "none" /\ raised' # "none"
          /\ message' = raised'
          /\ (pyx = "absent" /\ ImportsDone)
                => (pc = "in_cythonize" /\ cythonizeArgs = <<"cLev.pyx">>)
    /\ exit # "error"

C5_NoValidationNoRecovery == [][C5_FailureStep]_vars

C5_Witness ==
    /\ pc = "done"
    /\ exit = "error"
    /\ pyx = "absent"
    /\ cyState = "raised"
    /\ message = "ValueError: doesn't match any files"

\* C6: the run is never finished while a toolchain call is in progress, the
\* script waits in the call that is in progress, the two calls are never in
\* progress together, and, every toolchain call ending, the run finishes.
C6_Synchronous ==
    /\ pc = "done" => (cyState # "running" /\ setupState # "running")
    /\ cyState = "running" => pc = "in_cythonize"
    /\ setupState = "running" => pc = "in_setup"
    /\ ~(cyState = "running" /\ setupState = "running")

C6_SynchronousAndTerminates == []C6_Synchronous /\ <>(pc = "done")

C6_Witness ==
    /\ pc = "in_setup"
    /\ setupState = "running"
    /\ cyState = "returned"

\* C7: setup is entered only after cythonize has returned, never after it has
\* raised, and only with the extension list cythonize returned.
C7_CythonizeBeforeSetup ==
    /\ setupState # "idle" => cyState = "returned"
    /\ setupCalls # <<>> => cyState = "returned"
    /\ cyState = "raised" => (setupCalls = <<>> /\ setupState = "idle")
    /\ \A i \in 1..Len(setupCalls) :
          /\ setupCalls[i].ext_modules = ext_modules
          /\ setupCalls[i].ext_modules = CythonizeValue("cLev.pyx", pyx)

C7_Witness ==
    /\ pc = "done"
    /\ pyx = "syntax_error"
    /\ cyState = "raised"
    /\ setupCalls = <<>>

\* C8 as stated: under every command line, a finished run has called
\* cythonize on cLev.pyx, and a finished run with cLev.pyx absent has failed.
C8_Original ==
    \A cmd \in Commands : argv = cmd =>
        /\ pc = "done" => cythonizeArgs = <<"cLev.pyx">>
        /\ (pc = "done" /\ pyx = "absent") => exit = "error"

\* C8 as amended: under every command line, once both imports are done and
\* the script is past line 6 cythonize has been called on cLev.pyx, and a
\* finished run with cLev.pyx absent has failed: in cythonize when both
\* imports were done, in the failing import otherwise.
C8_CythonizeWhateverTheCommand ==
    \A cmd \in Commands : argv = cmd =>
        /\ (ImportsDone /\ pc # "line6") => cythonizeArgs = <<"cLev.pyx">>
        /\ ~ImportsDone => cythonizeArgs = <<>>
        /\ (pc = "done" /\ ImportsDone) => cyState \in {"returned", "raised"}
        /\ (pc = "done" /\ pyx = "absent") => exit = "error"
        /\ (pc = "done" /\ pyx = "absent" /\ ImportsDone) => cyState = "raised"

C8_Witness ==
    /\ pc = "done"
    /\ argv = "--help"
    /\ pyx = "absent"
    /\ exit = "error"
    /\ cythonizeArgs = <<"cLev.pyx">>

====
